---- MODULE Spec2Model ----
(***************************************************************************)
(* Pool Stack C Allocator (lib/psca.c): the frame stack, the block chains  *)
(* and the bump/growth allocation path, with the backing allocator pair.   *)
(*                                                                         *)
(* Memory is a set of segments, one per buffer obtained from the backing   *)
(* allocator.  A pointer is <<segment, offset>>, the offset counted from   *)
(* the first byte of the buffer; NULL is <<0, 0>>.  size_t and uintptr_t   *)
(* arithmetic is modulo SIZE_MOD = 2^SizeBits.                              *)
(*                                                                         *)
(* Undefined behaviour.  An access of the library outside the buffer it    *)
(* addresses (a header written past a short buffer) has two outcomes: the  *)
(* process faults (crashed), or the access goes through to the addressed   *)
(* bytes and execution continues (ub is set).  A NULL dereference has two  *)
(* outcomes: the process faults, or the read yields zero bytes.  A header  *)
(* written over another live header is modelled as a fault only.           *)
(***************************************************************************)
EXTENDS Integers, Sequences, FiniteSets, TLC

\* ---- bounds of the model ------------------------------------------------
SizeBits  == 18        \* width of size_t / uintptr_t in the model
MaxBlocks == 2         \* buffers held from the backing allocator at a time
MaxDepth  == 2         \* frames on the stack
MaxAllocs == 2         \* results of psca_malloc held by the frames on the stack

SIZE_MOD == 2 ^ SizeBits

\* ---- program constants --------------------------------------------------
PSCA_POOL_DEFAULT_BLOCK_SIZE    == 65536
PSCA_POOL_DEFAULT_GROWTH_FACTOR == 2
SIZEOF_BLOCK        == 16      \* sizeof(psca_block_t): a pointer and a size_t
PSCA_FRAME_OVERHEAD == 32      \* sizeof(psca_frame_t): three pointers and a size_t
PAGE_SIZE           == 4096    \* getpagesize() of the example strategy

NULL   == <<0, 0>>             \* the null pointer
NOBLK  == 0                    \* a null psca_block_t *

\* the backing allocator pairs a pool can be given
Pairs == {"default", "t"}

\* ---- inputs -------------------------------------------------------------
\* request sizes: empty, one header, one default block, and half the size_t
\* range (doubling it wraps)
Sizes        == {0, PSCA_FRAME_OVERHEAD,
                 PSCA_POOL_DEFAULT_BLOCK_SIZE, SIZE_MOD \div 2}
\* block sizes: none, two frame headers (one header and room for exactly one
\* more), the default, and the largest value (adding the block header wraps)
BlockSizes   == {0, 2 * PSCA_FRAME_OVERHEAD, PSCA_POOL_DEFAULT_BLOCK_SIZE,
                 SIZE_MOD - SIZEOF_BLOCK}
GrowthFactors == {0, PSCA_POOL_DEFAULT_GROWTH_FACTOR}

VARIABLES
  frames,         \* pool->frames: pointer to the top frame, or NULL
  funcs,          \* pool->alloc_func / free_func / context: the pair in use
  block_size,     \* pool->block_size
  growth_factor,  \* pool->growth_factor (a signed int)
  fmem,           \* the psca_frame_t headers in memory: pointer -> fields
  bmem,           \* the psca_block_t headers of the live buffers: id -> fields
  badfree,        \* free_func was handed a buffer that was not outstanding
  swapped,        \* the pair was replaced while a buffer was outstanding
  stack,          \* the caller's handles: results of Push not yet popped
  saved,          \* per handle: the header of the frame beneath, as the Push found it
  allocs,         \* results of psca_malloc of frames still on the stack
  last,           \* the last call: operation, arguments, result, effects
  alive,          \* the pool has not been destroyed
  crashed,        \* the process faulted
  ub              \* an out-of-bounds access went through

vars == <<frames, funcs, block_size, growth_factor, fmem, bmem, badfree,
          swapped, stack, saved, allocs, last, alive, crashed, ub>>

\* ---- size_t arithmetic --------------------------------------------------
SizeT(n) == n % SIZE_MOD

\* ---- the backing allocators ----------------------------------------------
\* psca_default_alloc: malloc(*size), *size unchanged
psca_default_alloc(size) == size

\* t_alloc: *size rounded up to whole pages, in size_t arithmetic
t_alloc(size) ==
  LET s == SizeT(size + (PAGE_SIZE - 1))
  IN  s - (s % PAGE_SIZE)

\* the size the pair `f` writes back through *size for a request of `size`
alloc_func(f, size) ==
  IF f = "default" THEN psca_default_alloc(size) ELSE t_alloc(size)

\* ---- blocks ---------------------------------------------------------------
PSCA_BLOCK_START(b) == <<b, SIZEOF_BLOCK>>

\* psca_block_add on success: the header written into buffer `cap` bytes long
\* (`cap` is what the allocator reported back through *size); `by` and `asked`
\* are not memory of the program: the pair called and the size asked for
psca_block_add(prev, size) ==
  LET req == SizeT(size + SIZEOF_BLOCK)
      cap == alloc_func(funcs, req)
  IN  [prev |-> prev, size |-> SizeT(cap - SIZEOF_BLOCK), cap |-> cap,
       by |-> funcs, asked |-> size]

\* the chain of blocks reached from `b` through prev, newest first
RECURSIVE Chain(_)
Chain(b) == IF b = NOBLK \/ b \notin DOMAIN bmem THEN <<>>
            ELSE <<b>> \o Chain(bmem[b].prev)

Range(s) == {s[i] : i \in DOMAIN s}

\* n bytes at pointer p lie inside the buffer p points into
InBuffer(p, n, bm) ==
  /\ p[1] \in DOMAIN bm
  /\ p[2] + n <= bm[p[1]].cap

\* a frame header written at p would overlap a live frame header or the
\* block header of its buffer
Clobbers(p, fm) ==
  \/ p[2] < SIZEOF_BLOCK
  \/ p[2] + PSCA_FRAME_OVERHEAD > SIZE_MOD
  \/ \E q \in DOMAIN fm :
       /\ q[1] = p[1]
       /\ q[2] < p[2] + PSCA_FRAME_OVERHEAD
       /\ p[2] < q[2] + PSCA_FRAME_OVERHEAD

Remove(f, ks) == [k \in DOMAIN f \ ks |-> f[k]]

\* bookkeeping of the model, not memory of the program: the frame on whose
\* behalf the buffer was obtained, and how many that frame then held
Owned(blk, owner) ==
  blk @@ [owner |-> owner,
          ord   |-> Cardinality({c \in DOMAIN bmem : bmem[c].owner = owner}) + 1]

\* the buffer the backing allocator hands out next: one it does not have
\* outstanding (an address can be handed out again once it was freed)
FreeIds == (1..MaxBlocks) \ DOMAIN bmem
NewId   == CHOOSE b \in FreeIds : \A c \in FreeIds : b <= c

\* psca_new: `got` tells whether malloc returned memory for the pool.  The
\* result of malloc is not tested: memset and the four stores go through
\* the null pointer when it failed, and the process faults.
psca_new(got) ==
  /\ frames = NULL
  /\ funcs = "default"
  /\ block_size = PSCA_POOL_DEFAULT_BLOCK_SIZE
  /\ growth_factor = PSCA_POOL_DEFAULT_GROWTH_FACTOR
  /\ fmem = <<>>
  /\ bmem = <<>>
  /\ badfree = FALSE
  /\ swapped = FALSE
  /\ stack = <<>>
  /\ saved = <<>>
  /\ allocs = {}
  /\ last = [op |-> "new", got |-> got]
  /\ alive = TRUE
  /\ crashed = ~got
  /\ ub = FALSE

Init == \E got \in BOOLEAN : psca_new(got)

Running == alive /\ ~crashed

\* the settings of the pool: struct psca_pool without the frame stack
Settings ==
  [funcs |-> funcs, block_size |-> block_size, growth_factor |-> growth_factor]

\* the process faults inside the call `op`
Fault(op) ==
  /\ crashed' = TRUE
  /\ last' = [op |-> "fault", in |-> op]
  /\ UNCHANGED <<frames, funcs, block_size, growth_factor, fmem, bmem,
                 badfree, swapped, stack, saved, allocs, alive, ub>>

\* ---- psca_push ------------------------------------------------------------
\* the header of a frame placed at the start of the fresh block b
psca_push_block(prev, b, blk) ==
  [blocks |-> b,
   prev   |-> prev,
   next   |-> <<b, SizeT(SIZEOF_BLOCK + PSCA_FRAME_OVERHEAD)>>,
   free   |-> SizeT(blk.size - PSCA_FRAME_OVERHEAD)]

\* an embedded frame that starts with the previous frame's chain
psca_push_embed_inherits(prev) ==
  [blocks |-> fmem[prev].blocks,
   prev   |-> prev,
   next   |-> <<fmem[prev].next[1], SizeT(fmem[prev].next[2] + PSCA_FRAME_OVERHEAD)>>,
   free   |-> SizeT(fmem[prev].free - PSCA_FRAME_OVERHEAD)]

\* the header of a frame placed in the room the previous frame has left;
\* the previous frame's own header is not written
psca_push_embed(prev) ==
  [blocks |-> NOBLK,
   prev   |-> prev,
   next   |-> <<fmem[prev].next[1], SizeT(fmem[prev].next[2] + PSCA_FRAME_OVERHEAD)>>,
   free   |-> SizeT(fmem[prev].free - PSCA_FRAME_OVERHEAD)]

\* a push that charges the embedded header to the previous frame as well
psca_push_embed_prev_charged(prev) ==
  [fmem[prev] EXCEPT
     !.next = <<@[1], SizeT(@[2] + PSCA_FRAME_OVERHEAD)>>,
     !.free = SizeT(@ - PSCA_FRAME_OVERHEAD)]

\* the previous frame's header after a frame was embedded in its room:
\* psca.c:131-135 reads prev->next and prev->free and writes neither
psca_push_embed_prev(prev) == fmem[prev]

\* a push that asks for a block only when the stack is empty
psca_push_needs_block_first(prev) == prev = NULL

\* the test of psca.c:115
psca_push_needs_block(prev) ==
  (prev = NULL) \/ (fmem[prev].free < PSCA_FRAME_OVERHEAD)

\* the size psca_push asks psca_block_add for (psca.c:118)
psca_push_block_size == block_size

\* a push that stores the failed result in pool->frames
psca_push_fail_top_null(prev) == NULL

\* pool->frames after the allocator failed: psca.c:120-122 returns before
\* the pool is written
psca_push_fail_top(prev) == prev

\* the frame is linked and becomes the top of the stack (`fm`: the headers
\* in memory before the new one is written)
\* (`asked`: the sizes psca_block_add was called with, in order)
PushDone(frame, hdr, fm, bm, acquired, asked, wentOut) ==
  /\ fmem' = (frame :> hdr) @@ fm
  /\ bmem' = bm
  /\ frames' = frame
  /\ stack' = Append(stack, frame)
  /\ saved' = Append(saved, IF frames = NULL THEN <<>> ELSE fmem[frames])
  /\ ub' = (ub \/ wentOut)
  /\ last' = [op |-> "push", ret |-> frame, acquired |-> acquired,
              asked |-> asked, block_size |-> block_size,
              pre |-> [frames |-> frames, fmem |-> fmem, bmem |-> bmem]]
  /\ UNCHANGED <<funcs, block_size, growth_factor, badfree, swapped, allocs, alive,
                 crashed>>

psca_push ==
  /\ Running
  /\ Len(stack) < MaxDepth
  /\ LET prev == frames IN
     IF psca_push_needs_block(prev)
     THEN \/ \* the allocator returns NULL
             /\ last' = [op |-> "push", ret |-> NULL, acquired |-> {},
                         asked |-> <<psca_push_block_size>>,
                         block_size |-> block_size,
                         pre |-> [frames |-> frames, fmem |-> fmem,
                                  bmem |-> bmem]]
             /\ frames' = psca_push_fail_top(prev)
             /\ UNCHANGED <<funcs, block_size, growth_factor, fmem, bmem,
                            badfree, swapped, stack, saved, allocs, alive, crashed, ub>>
          \/ /\ FreeIds # {}
             /\ LET b     == NewId
                    frame == PSCA_BLOCK_START(b)
                    blk   == Owned(psca_block_add(NOBLK, psca_push_block_size),
                                   frame)
                    bm    == (b :> blk) @@ bmem
                    fits  == InBuffer(frame, PSCA_FRAME_OVERHEAD, bm)
                IN  \/ PushDone(frame, psca_push_block(prev, b, blk), fmem, bm,
                                {b}, <<psca_push_block_size>>, ~fits)
                    \/ ~fits /\ Fault("push")
     ELSE LET frame == fmem[prev].next
              fits  == InBuffer(frame, PSCA_FRAME_OVERHEAD, bmem)
          IN  \/ /\ ~Clobbers(frame, fmem)
                 /\ PushDone(frame, psca_push_embed(prev),
                             [fmem EXCEPT ![prev] = psca_push_embed_prev(prev)],
                             bmem, {}, <<>>, ~fits)
              \/ (~fits \/ Clobbers(frame, fmem)) /\ Fault("push")

\* ---- psca_pop -------------------------------------------------------------
\* a pop that unlinks the frame and releases none of its blocks
psca_pop_blocks_none(block) == <<>>

\* the blocks the loop of psca.c:156-162 hands to free_func, in order
RECURSIVE psca_pop_blocks(_)
psca_pop_blocks(block) ==
  IF block = NOBLK THEN <<>>
  ELSE IF block \notin DOMAIN bmem THEN <<block>>
  ELSE <<block>> \o psca_pop_blocks(bmem[block].prev)

\* a pop that empties the stack instead of unlinking one frame
psca_pop_top_null(frame) == NULL

\* what pool->frames becomes (psca.c:151)
psca_pop_top(frame) == fmem[frame].prev

\* a pop that releases through the default pair whatever the pool was given
psca_pop_free_func_default == "default"

\* the pair whose free_func the loop calls (psca.c:159): the pool's current
psca_pop_free_func == funcs

psca_pop ==
  /\ Running
  /\ frames # NULL
  /\ LET frame == frames
         freed == psca_pop_blocks(fmem[frame].blocks)
     IN  /\ frames' = psca_pop_top(frame)
         /\ bmem' = Remove(bmem, Range(freed))
         /\ fmem' = Remove(fmem, {frame})
         /\ badfree' = (badfree \/ Range(freed) \ DOMAIN bmem # {})
         /\ stack' = SubSeq(stack, 1, Len(stack) - 1)
         /\ saved' = SubSeq(saved, 1, Len(saved) - 1)
         /\ allocs' = {a \in allocs : a.frame # frame}
         /\ last' = [op |-> "pop", ret |-> frame, freed |-> freed,
                     expected |-> stack[Len(stack)],
                     below |-> IF Len(stack) > 1 THEN stack[Len(stack) - 1]
                               ELSE NULL,
                     by |-> psca_pop_free_func,
                     saved |-> saved[Len(saved)],
                     pre |-> [frames |-> frames, fmem |-> fmem, bmem |-> bmem],
                     before |-> IF last.op # "push" THEN [op |-> last.op]
                                ELSE IF last.ret = NULL
                                     THEN [op |-> "push_failed"]
                                     ELSE last]
         /\ UNCHANGED <<funcs, block_size, growth_factor, swapped, alive,
                        crashed, ub>>

\* psca_pop on an empty stack: frame is NULL and frame->prev is read
psca_pop_empty ==
  /\ Running
  /\ frames = NULL
  /\ \E outcome \in {"fault", "NULL"} :
       /\ last' = [op |-> "pop_empty", ret |-> outcome]
       /\ crashed' = (outcome = "fault")
       /\ UNCHANGED <<frames, funcs, block_size, growth_factor, fmem, bmem,
                      badfree, swapped, stack, saved, allocs, alive, ub>>

\* ---- psca_malloc ----------------------------------------------------------
\* a test that also sends a request of exactly the free bytes to the growth
\* path
psca_malloc_needs_block_exact(f, size) == f.free <= size

\* the test of psca.c:176
psca_malloc_needs_block(f, size) == f.free < size

\* the size of the block the growth path asks for (psca.c:177-184); the int
\* growth factor is converted to size_t by the multiplication
psca_malloc_alloc_size(size) ==
  IF size < block_size THEN block_size ELSE SizeT(size * growth_factor)

\* the block the growth path links the new block to (psca.c:186): the head
\* of the frame's own chain
psca_malloc_prev_bumped(f) ==
  IF f.blocks = NOBLK THEN f.next[1] ELSE f.blocks

psca_malloc_prev(f) == f.blocks

\* a growth path that forgets to make the new block the head of the chain
psca_malloc_grow_unlinked(f, b, blk) ==
  [f EXCEPT !.next = PSCA_BLOCK_START(b), !.free = blk.size]

\* the frame header after the growth path linked block b (psca.c:192-194)
psca_malloc_grow(f, b, blk) ==
  [f EXCEPT !.next = PSCA_BLOCK_START(b), !.blocks = b, !.free = blk.size]

\* a bump that also cuts the frame off the frames beneath it
psca_malloc_bump_unlinked(f, size) ==
  [f EXCEPT !.next = <<@[1], SizeT(@[2] + size)>>, !.free = SizeT(@ - size),
            !.prev = NULL]

\* the frame header after the bump (psca.c:199-200)
psca_malloc_bump(f, size) ==
  [f EXCEPT !.next = <<@[1], SizeT(@[2] + size)>>, !.free = SizeT(@ - size)]

\* a growth path that assigns frame->blocks before it tests the result
psca_malloc_fail_assigned(f) == [f EXCEPT !.blocks = NOBLK]

\* the frame header after the allocator failed: psca.c:188-190 returns
\* before the frame is written
psca_malloc_fail(f) == f

\* what a call of psca_malloc records of a failed call right before it
MallocBefore(frame) ==
  IF last.op = "malloc" /\ last.ret = NULL /\ last.frame = frame
  THEN [op |-> "malloc_failed", hdr |-> last.pre.fmem[frame]]
  ELSE [op |-> last.op]

\* the pointer is returned and the live results are bounded by MaxAllocs
MallocDone(frame, f, size, bm, acquired, asked, wentOut) ==
  /\ Cardinality(allocs) < MaxAllocs
  /\ UNCHANGED <<frames, funcs, block_size, growth_factor, badfree, swapped,
                 stack, saved, alive, crashed>>
  /\ fmem' = [fmem EXCEPT ![frame] = psca_malloc_bump(f, size)]
  /\ bmem' = bm
  /\ allocs' = allocs \cup {[frame |-> frame, ptr |-> f.next, size |-> size]}
  /\ ub' = (ub \/ wentOut)
  /\ last' = [op |-> "malloc", size |-> size, ret |-> f.next,
              acquired |-> acquired, asked |-> asked, frame |-> frame,
              pre |-> [frames |-> frames, fmem |-> fmem, bmem |-> bmem],
              before |-> MallocBefore(frame),
              settings_kept |-> (Settings' = Settings)]

psca_malloc(size) ==
  /\ Running
  /\ frames # NULL
  /\ LET frame == frames
         f     == fmem[frame]
     IN  IF psca_malloc_needs_block(f, size)
         THEN \/ \* the allocator returns NULL
                 /\ UNCHANGED <<frames, funcs, block_size, growth_factor,
                                bmem, badfree, swapped, stack, saved, allocs, alive,
                                crashed, ub>>
                 /\ fmem' = [fmem EXCEPT ![frame] = psca_malloc_fail(f)]
                 /\ last' = [op |-> "malloc", size |-> size, ret |-> NULL,
                             acquired |-> {}, frame |-> frame,
                             asked |-> <<psca_malloc_alloc_size(size)>>,
                             pre |-> [frames |-> frames, fmem |-> fmem,
                                      bmem |-> bmem],
                             before |-> MallocBefore(frame),
                             settings_kept |-> (Settings' = Settings)]
              \/ /\ FreeIds # {}
                 /\ LET b    == NewId
                        blk  == Owned(psca_block_add(psca_malloc_prev(f),
                                        psca_malloc_alloc_size(size)), frame)
                        bm   == (b :> blk) @@ bmem
                        fits == blk.cap >= SIZEOF_BLOCK
                    IN  \/ MallocDone(frame, psca_malloc_grow(f, b, blk),
                                      size, bm, {b},
                                      <<psca_malloc_alloc_size(size)>>, ~fits)
                        \/ ~fits /\ Fault("malloc")
         ELSE MallocDone(frame, f, size, bmem, {}, <<>>, FALSE)

\* psca_malloc on an empty stack: frame is NULL, frame->free is read and
\* frame->next is written
psca_malloc_empty(size) ==
  /\ Running
  /\ frames = NULL
  /\ Fault("malloc_empty")

\* ---- psca_destroy ---------------------------------------------------------
\* the value psca_destroy returns (psca.c:250)
psca_destroy_result == 0

psca_destroy ==
  /\ Running
  /\ alive' = FALSE
  /\ last' = [op |-> "destroy", ret |-> psca_destroy_result,
              depth |-> Len(stack)]
  /\ UNCHANGED <<frames, funcs, block_size, growth_factor, fmem, bmem,
                 badfree, swapped, stack, saved, allocs, crashed, ub>>

\* ---- configuration --------------------------------------------------------
\* The caller sets the block size and the growth factor while no frame is on
\* the stack; the allocator pair is replaced at any time.
psca_set_funcs(f) ==
  /\ Running
  /\ funcs' = f
  /\ swapped' = (swapped \/ (f # funcs /\ DOMAIN bmem # {}))
  /\ UNCHANGED <<frames, block_size, growth_factor, fmem, bmem, badfree,
                 stack, saved, allocs, last, alive, crashed, ub>>

psca_set_block_size(value) ==
  /\ Running
  /\ frames = NULL
  /\ block_size' = value
  /\ UNCHANGED <<frames, funcs, growth_factor, fmem, bmem, badfree, swapped,
                 stack, saved, allocs, last, alive, crashed, ub>>

psca_set_growth_factor(value) ==
  /\ Running
  /\ frames = NULL
  /\ growth_factor' = value
  /\ UNCHANGED <<frames, funcs, block_size, fmem, bmem, badfree, swapped,
                 stack, saved, allocs, last, alive, crashed, ub>>

Next ==
  \/ psca_push
  \/ psca_pop
  \/ psca_pop_empty
  \/ \E size \in Sizes : psca_malloc(size)
  \/ \E size \in Sizes : psca_malloc_empty(size)
  \/ psca_destroy
  \/ \E f \in Pairs : psca_set_funcs(f)
  \/ \E value \in BlockSizes : psca_set_block_size(value)
  \/ \E value \in GrowthFactors : psca_set_growth_factor(value)

Spec == Init /\ [][Next]_vars

\* ==== properties ===========================================================
NoDup(s) == \A i, j \in DOMAIN s : i # j => s[i] # s[j]

\* the frames on the stack, top first, by the prev links from pool->frames
RECURSIVE Walk(_, _)
Walk(f, fuel) ==
  IF f = NULL \/ fuel = 0 \/ f \notin DOMAIN fmem THEN <<>>
  ELSE <<f>> \o Walk(fmem[f].prev, fuel - 1)

FramesOnStack == Walk(frames, MaxDepth + 1)

\* C1: a Pop returns the handle the matching Push returned (the most recent
\* Push not yet popped) and leaves the frame directly beneath it as the top
\* of the stack, or an empty stack if there was none.
C1_PopReturnsMatchingHandle ==
  last.op = "pop" =>
    /\ last.ret = last.expected
    /\ frames = last.below
    /\ FramesOnStack = [i \in 1..Len(stack) |-> stack[Len(stack) + 1 - i]]

\* a nested frame was popped, after allocations, and its parent is the top
C1_Witness ==
  /\ last.op = "pop"
  /\ frames # NULL
  /\ last.ret # frames
  /\ \E a \in allocs : a.frame = frames

\* C2: a Pop hands to release every block obtained on behalf of the popped
\* frame, each once, newest first, and no other block; a frame that obtained
\* no block causes no release.
C2_PopReleasesExactlyOwnChain ==
  last.op = "pop" =>
    LET was == last.pre.bmem
        own == {b \in DOMAIN was : was[b].owner = last.ret}
    IN  /\ Range(last.freed) = own
        /\ NoDup(last.freed)
        /\ \A i, j \in DOMAIN last.freed :
             i < j => was[last.freed[i]].ord > was[last.freed[j]].ord
        /\ DOMAIN bmem = DOMAIN was \ own
        /\ (last.pre.fmem[last.ret].blocks = NOBLK => last.freed = <<>>)

\* an embedded frame that grew a block of its own was popped, and the block
\* of the frame beneath it, which holds its header, is still outstanding
C2_Witness ==
  /\ last.op = "pop"
  /\ Len(last.freed) = 1
  /\ last.ret[1] \notin Range(last.freed)
  /\ last.ret[1] \in DOMAIN bmem
  /\ frames # NULL

\* C3: the buffers obtained and not yet released are exactly the blocks of
\* the chains of the frames on the stack, each in one chain, once; no buffer
\* is released twice; with an empty stack none is outstanding.
C3_OutstandingBlocksAreTheFramesChains ==
  LET fs     == FramesOnStack
      chain(i) == Chain(fmem[fs[i]].blocks)
  IN  /\ ~badfree
      /\ \A i \in DOMAIN fs : fmem[fs[i]].blocks \in DOMAIN bmem \cup {NOBLK}
      /\ \A b \in DOMAIN bmem : bmem[b].prev \in DOMAIN bmem \cup {NOBLK}
      /\ DOMAIN bmem = UNION {Range(chain(i)) : i \in DOMAIN fs}
      /\ \A i \in DOMAIN fs : NoDup(chain(i))
      /\ \A i, j \in DOMAIN fs :
           i # j => Range(chain(i)) \cap Range(chain(j)) = {}
      /\ (frames = NULL => DOMAIN bmem = {})

\* a frame holding two blocks was popped and the stack is empty again
C3_Witness ==
  /\ last.op = "pop"
  /\ Len(last.freed) = 2
  /\ frames = NULL
  /\ DOMAIN bmem = {}

\* the bytes [ptr, ptr + size) of a result lie in the payload of one block
InPayload(a) ==
  /\ a.ptr[1] \in DOMAIN bmem
  /\ a.ptr[2] >= SIZEOF_BLOCK
  /\ a.ptr[2] + a.size <= SIZEOF_BLOCK + bmem[a.ptr[1]].size
  /\ a.ptr[2] + a.size <= bmem[a.ptr[1]].cap

Disjoint(a, c) ==
  \/ a.ptr[1] # c.ptr[1]
  \/ a.ptr[2] + a.size <= c.ptr[2]
  \/ c.ptr[2] + c.size <= a.ptr[2]

\* C4: two results of Allocate of the same frame on the stack occupy disjoint
\* byte ranges, and every result lies wholly inside the payload of one block.
C4_AllocationsDisjointInsideOneBlock ==
  \A a \in allocs :
    /\ InPayload(a)
    /\ \A c \in allocs : (c # a /\ c.frame = a.frame) => Disjoint(a, c)

\* C5: Pop on an empty stack fails with StackImbalance, dereferences nothing,
\* releases nothing and leaves the pool as it was.
C5_PopOnEmptyFailsWithStackImbalance ==
  last.op = "pop_empty" => (last.ret = "StackImbalance" /\ ~crashed)

\* C6: Destroy with a frame still on the stack returns -1; it returns 0 only
\* when the stack is empty.
C6_DestroyFailsWhileFramesRemain ==
  last.op = "destroy" => (last.ret = IF last.depth > 0 THEN -1 ELSE 0)

\* C7: a Push whose request for a block fails returns NULL and leaves the pool
\* as it was: the same top frame, its header unchanged, no block linked.
C7_FailedPushLeavesPoolUnchanged ==
  (last.op = "push" /\ last.ret = NULL) =>
    /\ frames = last.pre.frames
    /\ fmem = last.pre.fmem
    /\ bmem = last.pre.bmem
    /\ FramesOnStack = [i \in 1..Len(stack) |-> stack[Len(stack) + 1 - i]]

\* a Push failed on a stack whose top frame had no room for a header
C7_Witness ==
  /\ last.op = "push"
  /\ last.ret = NULL
  /\ frames # NULL
  /\ fmem[frames].free < PSCA_FRAME_OVERHEAD

\* C8: an Allocate whose request for a block fails returns NULL and leaves the
\* frame's cursor, free bytes and chain as they were; an Allocate right after
\* it that fits in the free bytes returns the old cursor without a new block.
C8_FailedAllocateLeavesFrameUnchanged ==
  /\ (last.op = "malloc" /\ last.ret = NULL) =>
       /\ frames = last.pre.frames
       /\ fmem = last.pre.fmem
       /\ bmem = last.pre.bmem
  /\ (last.op = "malloc" /\ last.before.op = "malloc_failed"
        /\ last.size <= last.before.hdr.free) =>
       /\ last.ret = last.before.hdr.next
       /\ last.acquired = {}
       /\ last.pre.fmem[last.frame] = last.before.hdr

\* after a failed growth, a request that fits was served from the old cursor
C8_Witness ==
  /\ last.op = "malloc"
  /\ last.before.op = "malloc_failed"
  /\ last.size > 0
  /\ last.ret # NULL
  /\ last.acquired = {}

\* C9: a Push followed at once by a Pop restores the stack: the same top
\* frame with the same header, the Pop returns the handle of the Push, and a
\* block the Push obtained is released once and no other.
C9_PushPopRestores ==
  (last.op = "pop" /\ last.before.op = "push") =>
    /\ last.ret = last.before.ret
    /\ frames = last.before.pre.frames
    /\ fmem = last.before.pre.fmem
    /\ bmem = last.before.pre.bmem
    /\ Range(last.freed) = last.before.acquired
    /\ NoDup(last.freed)
    /\ Range(last.freed) \subseteq DOMAIN last.pre.bmem

\* a Push that had to obtain a block on a non-empty stack was popped at once
C9_Witness ==
  /\ last.op = "pop"
  /\ last.before.op = "push"
  /\ last.before.acquired # {}
  /\ frames # NULL

RECURSIVE SumFree(_)
SumFree(S) ==
  IF S = {} THEN 0
  ELSE LET f == CHOOSE y \in S : TRUE
       IN  fmem[f].free + SumFree(S \ {f})

RECURSIVE SumUsable(_)
SumUsable(S) ==
  IF S = {} THEN 0
  ELSE LET b == CHOOSE y \in S : TRUE
       IN  bmem[b].size + SumUsable(S \ {b})

\* C10: the free bytes of the frames on the stack, added up, never exceed the
\* usable sizes of the blocks those frames own, added up.
C10_TotalFreeWithinOwnedUsable ==
  SumFree(Range(FramesOnStack)) <= SumUsable(DOMAIN bmem)

\* C11: for every frame on the stack the cursor lies within the payload of
\* the block it is bumping into, between the payload's first byte and its
\* end, and the free bytes are the payload's end minus the cursor.
C11_CursorInsideBumpedBlock ==
  \A f \in Range(FramesOnStack) :
    LET cur == fmem[f].next
    IN  /\ cur[1] \in DOMAIN bmem
        /\ cur[2] >= SIZEOF_BLOCK
        /\ cur[2] <= SIZEOF_BLOCK + bmem[cur[1]].size
        /\ fmem[f].free = SIZEOF_BLOCK + bmem[cur[1]].size - cur[2]

\* every block a Pop released was obtained through the pair that released it
ReleasedByAcquirer ==
  last.op = "pop" =>
    \A b \in Range(last.freed) :
      b \in DOMAIN last.pre.bmem /\ last.pre.bmem[b].by = last.by

\* C12 (as stated): whenever the pair is replaced, every buffer handed to a
\* release function was returned by the allocate function of the same pair.
C12_ReleasedByAcquiringPairAlways == ReleasedByAcquirer

\* C12 (amended): as long as the pair was replaced only while the pool held
\* no block, every outstanding block was obtained through the pair in use and
\* every block a Pop released was obtained through the pair that released it.
C12_ReleasedByAcquiringPairIfSetWhileEmpty ==
  ~swapped =>
    /\ \A b \in DOMAIN bmem : bmem[b].by = funcs
    /\ ReleasedByAcquirer

\* the pair was replaced on an empty pool, then a frame obtained a block
\* through the new pair and was popped, over a frame that stays
C12_Witness ==
  /\ ~swapped
  /\ last.op = "pop"
  /\ last.by = "t"
  /\ last.freed # <<>>
  /\ frames # NULL

\* C13: a Push asks the pair for a block exactly when the stack is empty or
\* the top frame has fewer free bytes than a frame header; it then asks once,
\* for the pool's block size, and the block is the only one of the new
\* frame's chain.  Otherwise it asks for nothing, the header is placed at the
\* top frame's cursor, the chain is empty, the cursor is the parent's cursor
\* plus the header size and the free bytes the parent's minus the header size.
C13_PushAcquiresExactlyWhenNoRoom ==
  last.op = "push" =>
    LET top   == last.pre.frames
        needs == top = NULL \/ last.pre.fmem[top].free < PSCA_FRAME_OVERHEAD
    IN  IF needs
        THEN /\ last.asked = <<last.block_size>>
             /\ Cardinality(last.acquired) <= 1
             /\ last.ret # NULL =>
                  \E b \in last.acquired :
                    /\ last.acquired = {b}
                    /\ DOMAIN bmem = DOMAIN last.pre.bmem \cup {b}
                    /\ b \notin DOMAIN last.pre.bmem
                    /\ bmem[b].asked = last.block_size
                    /\ last.ret = PSCA_BLOCK_START(b)
                    /\ Chain(fmem[last.ret].blocks) = <<b>>
        ELSE /\ last.asked = <<>>
             /\ last.acquired = {}
             /\ bmem = last.pre.bmem
             /\ last.ret = last.pre.fmem[top].next
             /\ fmem[last.ret].blocks = NOBLK
             /\ fmem[last.ret].next =
                  <<last.pre.fmem[top].next[1],
                    SizeT(last.pre.fmem[top].next[2] + PSCA_FRAME_OVERHEAD)>>
             /\ fmem[last.ret].free =
                  last.pre.fmem[top].free - PSCA_FRAME_OVERHEAD

\* a Push on a top frame without room for a header obtained a block of its own
C13_Witness ==
  /\ last.op = "push"
  /\ last.ret # NULL
  /\ last.pre.frames # NULL
  /\ last.pre.fmem[last.pre.frames].free < PSCA_FRAME_OVERHEAD
  /\ last.acquired # {}

\* C14: an Allocate of more than the frame's free bytes asks the pair once,
\* for a block of the pool's block size when the request is smaller than the
\* block size and of the request times the growth factor otherwise, and the
\* frame's chain grows by that one block.
C14_GrowthAsksOnceForPolicySize ==
  (last.op = "malloc" /\ last.size > last.pre.fmem[last.frame].free) =>
    /\ last.asked = <<IF last.size < block_size THEN block_size
                      ELSE last.size * growth_factor>>
    /\ last.ret # NULL =>
         \E b \in last.acquired :
           /\ last.acquired = {b}
           /\ bmem[b].asked = last.asked[1]
           /\ Chain(fmem[last.frame].blocks) =
                <<b>> \o Chain(last.pre.fmem[last.frame].blocks)

\* C15: Create returns NULL, touching no memory, when the memory for the pool
\* cannot be obtained; when it can, the pool starts with an empty frame stack.
C15_CreateReturnsNullWithoutMemory ==
  last.op = "new" =>
    IF last.got THEN frames = NULL /\ fmem = <<>> /\ bmem = <<>>
    ELSE ~crashed

\* the last call was a Push that embedded the frame in the top frame's room
EmbeddedPush ==
  /\ last.op = "push"
  /\ last.ret # NULL
  /\ last.asked = <<>>

\* C16 (as stated): a Push that embeds the new frame decrements the parent
\* frame's free bytes by the header size and advances the parent's cursor by
\* the header size.
C16_EmbeddedPushChargesParent ==
  EmbeddedPush =>
    LET top == last.pre.frames
    IN  /\ fmem[top].free = last.pre.fmem[top].free - PSCA_FRAME_OVERHEAD
        /\ fmem[top].next =
             <<last.pre.fmem[top].next[1],
               SizeT(last.pre.fmem[top].next[2] + PSCA_FRAME_OVERHEAD)>>

\* C16 (amended): a Push that embeds the new frame leaves the parent frame's
\* header as it was; only the new frame accounts for the header: it sits at
\* the parent's cursor, its cursor is the parent's plus the header size and
\* its free bytes are the parent's minus the header size.
C16_EmbeddedPushLeavesParent ==
  EmbeddedPush =>
    LET top == last.pre.frames
    IN  /\ fmem[top] = last.pre.fmem[top]
        /\ last.ret = fmem[top].next
        /\ fmem[last.ret].prev = top
        /\ fmem[last.ret].next =
             <<fmem[top].next[1], SizeT(fmem[top].next[2] + PSCA_FRAME_OVERHEAD)>>
        /\ fmem[last.ret].free = fmem[top].free - PSCA_FRAME_OVERHEAD

\* a frame was embedded in a parent that had handed out memory before
C16_Witness ==
  /\ EmbeddedPush
  /\ \E a \in allocs : a.frame = last.pre.frames /\ a.size > 0

\* what the last Allocate found in the frame it served
MallocPre == last.pre.fmem[last.frame]

\* C17: an Allocate of at most the frame's free bytes (of exactly the free
\* bytes, or of 0 bytes) asks the pair for nothing, returns the cursor as it
\* was, and leaves the cursor advanced by the size, the free bytes decreased
\* by the size and the chain as it was.
C17_FastPathBumpsWithoutStrategy ==
  (last.op = "malloc" /\ last.size <= MallocPre.free) =>
    /\ last.asked = <<>>
    /\ last.acquired = {}
    /\ bmem = last.pre.bmem
    /\ last.ret = MallocPre.next
    /\ fmem[last.frame].next =
         <<MallocPre.next[1], SizeT(MallocPre.next[2] + last.size)>>
    /\ fmem[last.frame].free = MallocPre.free - last.size
    /\ fmem[last.frame].blocks = MallocPre.blocks

\* a request of exactly the free bytes, not 0, was served from the cursor
C17_Witness ==
  /\ last.op = "malloc"
  /\ last.size > 0
  /\ last.size = MallocPre.free
  /\ fmem[last.frame].free = 0

\* C18: after an Allocate that obtained a block, the returned pointer is the
\* block's payload start, the cursor is the payload start plus the size, and
\* the free bytes are the block's usable size (what the pair reported back
\* minus the block header) minus the size.
C18_GrowthResetsToActualUsable ==
  (last.op = "malloc" /\ last.ret # NULL /\ last.acquired # {}) =>
    \E b \in last.acquired :
      /\ last.ret = PSCA_BLOCK_START(b)
      /\ fmem[last.frame].next[1] = b
      /\ fmem[last.frame].next[2] = SIZEOF_BLOCK + last.size
      /\ fmem[last.frame].free = (bmem[b].cap - SIZEOF_BLOCK) - last.size

\* C19: following prev from the head of a frame's chain visits only blocks
\* obtained on behalf of that frame and ends at none; the first block an
\* embedded frame obtains by growth has no prev, not a link to the
\* ancestor's block it was bumping into.
C19_ChainStaysInsideItsFrame ==
  /\ \A f \in Range(FramesOnStack) :
       LET chain == Chain(fmem[f].blocks)
       IN  /\ fmem[f].blocks \in DOMAIN bmem \cup {NOBLK}
           /\ \A i \in DOMAIN chain :
                /\ bmem[chain[i]].owner = f
                /\ bmem[chain[i]].prev \in DOMAIN bmem \cup {NOBLK}
           /\ NoDup(chain)
  /\ (last.op = "malloc" /\ last.acquired # {} /\ MallocPre.blocks = NOBLK) =>
       \A b \in last.acquired : bmem[b].prev = NOBLK

\* an embedded frame, bumping into its parent's block, grew a block of its
\* own while the parent holds its own chain
C19_Witness ==
  /\ last.op = "malloc"
  /\ last.acquired # {}
  /\ MallocPre.blocks = NOBLK
  /\ MallocPre.next[1] \in DOMAIN bmem
  /\ bmem[MallocPre.next[1]].owner = fmem[last.frame].prev
  /\ fmem[fmem[last.frame].prev].blocks # NOBLK

\* C20: an Allocate, successful or failed, changes nothing but the top
\* frame's cursor, free bytes and chain: the headers of the frames below, the
\* top frame's prev, the blocks held before, the top of the stack and the
\* pool's block size, growth factor and pair stay as they were.
C20_AllocateTouchesOnlyTopFrame ==
  last.op = "malloc" =>
    /\ frames = last.pre.frames
    /\ last.frame = last.pre.frames
    /\ last.settings_kept
    /\ DOMAIN fmem = DOMAIN last.pre.fmem
    /\ \A q \in DOMAIN fmem \ {frames} : fmem[q] = last.pre.fmem[q]
    /\ fmem[frames].prev = last.pre.fmem[frames].prev
    /\ \A b \in DOMAIN last.pre.bmem :
         b \in DOMAIN bmem /\ bmem[b] = last.pre.bmem[b]

\* an Allocate grew a block for a frame that has a frame with its own
\* allocation beneath it
C20_Witness ==
  /\ last.op = "malloc"
  /\ last.acquired # {}
  /\ fmem[last.frame].prev # NULL
  /\ \E a \in allocs : a.frame = fmem[last.frame].prev

\* C21: from a Push on top of a frame to the matching Pop, whatever balanced
\* calls lie between, the frame's cursor, free bytes and chain do not change:
\* every frame beneath another is as the Push on top of it found it, and the
\* Pop leaves it so.
C21_ParentRestoredByMatchingPop ==
  /\ Len(saved) = Len(stack)
  /\ \A i \in 2..Len(stack) : fmem[stack[i - 1]] = saved[i]
  /\ (last.op = "pop" /\ frames # NULL) => fmem[frames] = last.saved

\* a child embedded in the parent's current block grew a block of its own,
\* bumped into it and was popped; the parent had handed out memory before
C21_Witness ==
  /\ last.op = "pop"
  /\ frames # NULL
  /\ last.ret[1] = fmem[frames].next[1]
  /\ last.freed # <<>>
  /\ last.pre.fmem[last.ret].next # PSCA_BLOCK_START(last.freed[1])
  /\ \E a \in allocs : a.frame = frames /\ a.size > 0

\* the frames beneath frame f on the stack, and f itself
SelfAndBelow(f) ==
  {f} \cup {g \in Range(FramesOnStack) :
              \E i, j \in DOMAIN FramesOnStack :
                FramesOnStack[i] = f /\ FramesOnStack[j] = g /\ i < j}

\* n bytes at p lie in the payload of a live block of frame f or of a frame
\* beneath it
InLiveBlockOf(p, n, f) ==
  /\ p[1] \in DOMAIN bmem
  /\ bmem[p[1]].owner \in SelfAndBelow(f)
  /\ p[2] >= SIZEOF_BLOCK
  /\ p[2] + n <= bmem[p[1]].cap
  /\ p[2] + n <= SIZEOF_BLOCK + bmem[p[1]].size

\* C22: the header of every frame on the stack, and the place its cursor
\* points to, lie inside a block that is held (obtained, not released) and is
\* owned by that frame or by a frame beneath it; a Pop releases no block that
\* holds the header or the cursor of a frame that stays on the stack.
C22_HeadersAndCursorsInLiveBlocks ==
  /\ \A f \in Range(FramesOnStack) :
       /\ InLiveBlockOf(f, PSCA_FRAME_OVERHEAD, f)
       /\ InLiveBlockOf(fmem[f].next, 0, f)
  /\ last.op = "pop" =>
       \A f \in Range(FramesOnStack) :
         f[1] \notin Range(last.freed) /\ fmem[f].next[1] \notin Range(last.freed)

\* the byte ranges handed to the caller or used for a header, as
\* [p: first byte, n: length]
HeaderRange(f) == [p |-> f, n |-> PSCA_FRAME_OVERHEAD]
AllocRange(a)  == [p |-> a.ptr, n |-> a.size]

\* the bytes of range r are bytes of the buffer r points into
Backed(r) == InBuffer(r.p, r.n, bmem)

\* two ranges share no byte.  Ranges that point into the same buffer are
\* compared by their offsets.  Ranges that point into different buffers are
\* apart when both stay inside their buffers: where a buffer lies in memory
\* is the allocator's choice, so a range that runs off its buffer may reach
\* any other buffer.
Apart(r, q) ==
  \/ r.n = 0
  \/ q.n = 0
  \/ IF r.p[1] = q.p[1]
     THEN /\ r.p[2] + r.n <= SIZE_MOD
          /\ q.p[2] + q.n <= SIZE_MOD
          /\ \/ r.p[2] + r.n <= q.p[2]
             \/ q.p[2] + q.n <= r.p[2]
     ELSE Backed(r) /\ Backed(q)

\* C23: the top frame's header and every range returned to the top frame are
\* disjoint from the header of, and from every range returned to, each frame
\* beneath it on the stack, also when the top frame is embedded in and bumps
\* through a block of a frame beneath it.
C23_TopFrameApartFromFramesBelow ==
  frames # NULL =>
    LET mine   == {HeaderRange(frames)} \cup
                  {AllocRange(a) : a \in {c \in allocs : c.frame = frames}}
        below  == SelfAndBelow(frames) \ {frames}
        theirs == {HeaderRange(g) : g \in below} \cup
                  {AllocRange(a) : a \in {c \in allocs : c.frame \in below}}
    IN  \A r \in mine : \A q \in theirs : Apart(r, q)

\* C24: with a pair that does not round up, a Push that obtains a block, for
\* any block size (0 and sizes below the frame header included), leaves the
\* header wholly inside the block's payload and the free bytes equal to the
\* usable size minus the header size, not wrapped below zero.
C24_PushHeaderFitsEveryBlockSize ==
  (last.op = "push" /\ last.ret # NULL /\ last.acquired # {}) =>
    \A b \in last.acquired :
      bmem[b].by = "default" =>
        /\ InLiveBlockOf(last.ret, PSCA_FRAME_OVERHEAD, last.ret)
        /\ fmem[last.ret].free = bmem[b].size - PSCA_FRAME_OVERHEAD
        /\ bmem[b].size = last.block_size

\* C25: for any growth factor (0 included) and a request of at least the
\* block size, the block the growth path obtains has at least the requested
\* usable bytes, the free bytes after the bump are the usable size minus the
\* request, not wrapped below zero, and the returned range fits in the block.
C25_GrowthBlockHoldsRequest ==
  (last.op = "malloc" /\ last.ret # NULL /\ last.acquired # {}
     /\ last.size >= block_size) =>
    \A b \in last.acquired :
      /\ bmem[b].size >= last.size
      /\ fmem[last.frame].free = bmem[b].size - last.size
      /\ last.ret = PSCA_BLOCK_START(b)
      /\ SIZEOF_BLOCK + last.size <= bmem[b].cap

====
